---- MODULE Spec2Model ----
(***************************************************************************)
(* Schema synchronization of a data source                                 *)
(* (packages/back-end/src/services/datasource.ts and                       *)
(* packages/back-end/src/models/InformationSchemaColumnsModel.ts).         *)
(*                                                                         *)
(* Every `await` of the code is a suspension point: the code between two   *)
(* awaits is one atomic step, and the calls of several synchronization     *)
(* runs interleave at these points.  A call into a driver or into the      *)
(* document store either returns or raises.                                *)
(*                                                                         *)
(* A JavaScript value that may be undefined is a sequence of length at     *)
(* most one: <<>> is undefined and <<v>> is the value v.  The empty array  *)
(* [] is therefore << <<>> >>, a defined value.                            *)
(***************************************************************************)
EXTENDS Integers, Sequences, FiniteSets, TLC

\* Bounds of the model.
MaxRuns == 2        \* synchronization runs of the one data source

Runs == 1..MaxRuns

Undefined == <<>>
Some(v) == <<v>>
ValueOf(o) == o[1]

\* The one data source the runs synchronize.
DataSourceId == "ds_1"
Organization == "org_1"
EncryptedParams == "U2FsdGVk"
PointerKey == "informationSchemaId"

\* The closed enum of the factory's switch, and a type outside it.
SupportedTypes ==
  {"athena", "redshift", "google_analytics", "snowflake", "postgres", "mysql",
   "mssql", "bigquery", "clickhouse", "mixpanel", "presto", "databricks"}
SampleTypes == {"postgres", "nosuchdb"}

\* The two optional introspection capabilities of a driver.
IntrospectionCapabilities == {"getInformationSchema", "formatInformationSchema"}

\* What a backend's metadata listing can hold: one row per table.  The two
\* listings give trees of one table and of two tables in two databases; the
\* tree without tables is the one of a driver without introspection.
Row(db, schema, table, columns) ==
  [table_catalog |-> db, table_schema |-> schema, table_name |-> table,
   columns |-> columns]
RawSchemas ==
  { << Row("db1", "public", "users", <<"id", "email", "created">>) >>,
    << Row("db1", "public", "users", <<"id">>),
       Row("db2", "events", "clicks", <<"id", "ts">>) >> }

FailureMessages == {"backend failure"}

\* The values another writer gives to a settings field other than the pointer.
QueriesSettings == {"queries v1", "queries v2"}

\* The two optional capabilities testQuery needs.
TestQueryCapabilities == {"getTestQuery", "runTestQuery"}

\* The raw queries a caller tests, what a backend answers, and how it fails.
Queries == {"SELECT 1", "SELECT * FROM users"}
TestQueryOutcomes ==
  { [results |-> <<>>, duration |-> 12],
    [results |-> <<[id |-> 1]>>, duration |-> 340] }
ConnectionFailures == {"connection refused", "authentication failed"}

\* Connection parameters: the fields in the order JSON.stringify writes them,
\* and the strings a field can hold ("" is the empty string).
ParamKeyOrder == <<"user", "password">>
ParamKeys == {ParamKeyOrder[i] : i \in 1..Len(ParamKeyOrder)}
ParamValues == {"", "a", "secret"}

\* The process-wide key, and the salts crypto-js draws for a passphrase.
ENCRYPTION_KEY == "dev"
Salts == {"salt1", "salt2"}

VARIABLES
  dsStore,            \* the DataSourceRecord in the document store
  colsCollection,     \* the InformationSchemaColumns collection: a set of documents
  schemaCollection,   \* the InformationSchema collection: a set of documents
  driverCaps,         \* the capabilities the driver variant of this source declares
  run,                \* the local state of every synchronization run
  lastBacklink,       \* history: the run whose updateDataSource returned last, or 0
  test,               \* the local state of a testQuery / testDataSourceConnection call
  driver,             \* a live driver whose params are merged, redacted and encrypted
  lastCall            \* history: the last call on that driver's params, in and out

vars == <<dsStore, colsCollection, schemaCollection, driverCaps, run, lastBacklink,
          test, driver, lastCall>>

-----------------------------------------------------------------------------
(* JavaScript helpers *)

\* if (v): undefined and null are falsy; an array, even [], and a non-empty
\* string are truthy.
Truthy(v) == v # Undefined

\* { ...base, [key]: value }
Spread(base, key, value) ==
  [k \in DOMAIN base \cup {key} |-> IF k = key THEN value ELSE base[k]]

RECURSIVE Flatten(_)
Flatten(seqs) == IF seqs = <<>> THEN <<>> ELSE Head(seqs) \o Flatten(Tail(seqs))

-----------------------------------------------------------------------------
(* Integration factory *)

\* The switch over the type: a driver object, or undefined when no case matches.
getIntegrationObj(type, params, settings) ==
  IF type \in SupportedTypes
    THEN Some([variant |-> type, params |-> params, settings |-> settings,
               capabilities |-> driverCaps,
               organization |-> Undefined, datasource |-> Undefined])
    ELSE Undefined

\* A variant that stamps the organization only.
getSourceIntegrationObjectWithoutId(datasource) ==
  LET obj == getIntegrationObj(datasource.type, datasource.params, datasource.settings)
  IN  IF ~Truthy(obj)
        THEN [threw |-> TRUE, obj |-> Undefined,
              message |-> <<"Unknown data source type: ", datasource.type>>]
        ELSE [threw |-> FALSE, message |-> <<>>,
              obj |-> Some([ValueOf(obj) EXCEPT
                              !.organization = Some(datasource.organization)])]

\* Returns [threw, message, obj]: the stamped driver, or the raised error, whose
\* message is the text followed by the type.
getSourceIntegrationObject(datasource) ==
  LET obj == getIntegrationObj(datasource.type, datasource.params, datasource.settings)
  IN  IF ~Truthy(obj)
        THEN [threw |-> TRUE, obj |-> Undefined,
              message |-> <<"Unknown data source type: ", datasource.type>>]
        ELSE [threw |-> FALSE, message |-> <<>>,
              obj |-> Some([ValueOf(obj) EXCEPT
                              !.organization = Some(datasource.organization),
                              !.datasource = Some(datasource.id)])]

-----------------------------------------------------------------------------
(* Driver: formatInformationSchema, the grouping of the listing's rows into *)
(* the Database -> Schema -> Table tree, in order of first appearance.      *)

\* The position of the first element of names equal to name, or 0.
IndexOf(names, name) ==
  IF \E i \in 1..Len(names) : names[i] = name
    THEN CHOOSE i \in 1..Len(names) :
           names[i] = name /\ \A j \in 1..(i - 1) : names[j] # name
    ELSE 0

Table(row) ==
  [tableName |-> row.table_name, columns |-> row.columns, columns_id |-> Undefined]

AddToSchemas(schemas, row) ==
  LET s == IndexOf([i \in 1..Len(schemas) |-> schemas[i].schemaName], row.table_schema)
  IN  IF s = 0
        THEN Append(schemas, [schemaName |-> row.table_schema, tables |-> <<Table(row)>>])
        ELSE [schemas EXCEPT ![s].tables = Append(@, Table(row))]

AddToTree(tree, row) ==
  LET d == IndexOf([i \in 1..Len(tree) |-> tree[i].databaseName], row.table_catalog)
  IN  IF d = 0
        THEN Append(tree, [databaseName |-> row.table_catalog,
                           schemas |-> AddToSchemas(<<>>, row)])
        ELSE [tree EXCEPT ![d].schemas = AddToSchemas(@, row)]

RECURSIVE GroupRows(_, _)
GroupRows(rows, tree) ==
  IF rows = <<>> THEN tree ELSE GroupRows(Tail(rows), AddToTree(tree, Head(rows)))

formatInformationSchema(raw, type) == GroupRows(raw, <<>>)

-----------------------------------------------------------------------------
(* Document store *)

\* A variant whose ids repeat from one caller to the next.
uniqidPerCaller(prefix, fresh) == <<prefix, 0, fresh[2]>>

\* uniqid(prefix): an id no other call returns.  `fresh` names the call: the
\* run that makes it and how many ids that run has drawn before.
uniqid(prefix, fresh) == <<prefix, fresh[1], fresh[2]>>

\* A variant that hands back Mongo's _id as the id.
toInterfaceWithMongoId(doc) ==
  [id |-> doc._id, organization |-> doc.organization, columns |-> doc.columns]

\* Mongo's own fields of a stored document are dropped: omit(doc, ["__v", "_id"]).
toInterface(doc) ==
  [id |-> doc.id, organization |-> doc.organization, columns |-> doc.columns]

\* createInformationSchemaColumns(columns, organization): the document that
\* InformationSchemaColumnsModel.create stores (the dates are left out), and the
\* value returned to the caller.
createInformationSchemaColumns(columns, organization, fresh) ==
  LET result == [_id |-> <<"oid", fresh[1], fresh[2]>>, __v |-> 0,
                 id |-> uniqid("cols_", fresh),
                 organization |-> organization, columns |-> columns]
  IN  [document |-> result, returned |-> toInterface(result)]

\* createInformationSchema(tree, organization): the stored document, and the
\* returned id.
createInformationSchema(tree, organization, fresh) ==
  LET result == [_id |-> <<"oid", fresh[1], fresh[2]>>, __v |-> 0,
                 id |-> uniqid("inf_", fresh),
                 organization |-> organization, databases |-> tree]
  IN  [document |-> result, returned |-> Some(result.id)]

\* The record after updateDataSource(id, organization, updates): the settings
\* of the update are merged into the settings of the matching record.
updateDataSource(record, id, organization, updates) ==
  IF record.id = id /\ record.organization = organization
    THEN [record EXCEPT !.settings =
            [k \in DOMAIN record.settings \cup DOMAIN updates.settings |->
               IF k \in DOMAIN updates.settings
                 THEN updates.settings[k] ELSE record.settings[k]]]
    ELSE record

-----------------------------------------------------------------------------
(* The schema tree during synchronization *)

\* The tables in the order of the three nested for-of loops.
TablePaths(tree) ==
  Flatten([d \in 1..Len(tree) |->
    Flatten([s \in 1..Len(tree[d].schemas) |->
      [t \in 1..Len(tree[d].schemas[s].tables) |-> <<d, s, t>>]])])

TableAt(tree, path) == tree[path[1]].schemas[path[2]].tables[path[3]]

\* A variant that assigns to a copy of the table and leaves the tree as it was.
SetColumnsIdOnCopy(tree, path, id) == tree

\* table.columns_id = column.id
SetColumnsId(tree, path, id) ==
  [tree EXCEPT ![path[1]].schemas[path[2]].tables[path[3]].columns_id = Some(id)]

-----------------------------------------------------------------------------
(* Connection parameters: a params object is a function from the fields it  *)
(* owns to their values; a field can be owned and hold undefined.           *)

\* Every params object over ParamKeys, and those JSON can represent.
ParamStructures ==
  UNION { [keys -> {Undefined} \cup {Some(v) : v \in ParamValues}]
          : keys \in SUBSET ParamKeys }
JsonParamStructures ==
  UNION { [keys -> {Some(v) : v \in ParamValues}] : keys \in SUBSET ParamKeys }

NoParams == [k \in {} |-> Undefined]

\* params[k]: undefined when the object does not own k.
Get(params, k) == IF k \in DOMAIN params THEN params[k] ELSE Undefined

\* if (v) for a string or undefined: "" and undefined are falsy.
TruthyString(v) == v # Undefined /\ v # Some("")

\* A variant of the test in mergeParams that keeps the original of any empty field.
KeepsOriginalOfAnyKey(secretKeys, newParams, k) == ~TruthyString(newParams[k])

\* if (secretKeys.includes(k) && !newParams[k]) return;
KeepsOriginal(secretKeys, newParams, k) ==
  k \in secretKeys /\ ~TruthyString(newParams[k])

\* mergeParams: integration.params after the forEach over Object.keys(newParams).
mergeParams(params, secretKeys, newParams) ==
  LET written == {k \in DOMAIN newParams : ~KeepsOriginal(secretKeys, newParams, k)}
  IN  [k \in DOMAIN params \cup written |->
         IF k \in written THEN newParams[k] ELSE params[k]]

\* A variant that hands the copy back as it is.
getNonSensitiveParamsUnredacted(params, sensitiveParamKeys) == params

\* getNonSensitiveParams: ret = { ...integration.params }, then
\* if (ret[k]) ret[k] = "" for every sensitive key.
getNonSensitiveParams(params, sensitiveParamKeys) ==
  [k \in DOMAIN params |->
     IF k \in sensitiveParamKeys /\ TruthyString(params[k])
       THEN Some("") ELSE params[k]]

\* A variant of the serialization that leaves out every falsy field.
JSONstringifyTruthy(params) ==
  LET kept == SelectSeq(ParamKeyOrder,
                        LAMBDA k : k \in DOMAIN params /\ TruthyString(params[k]))
  IN  [i \in 1..Len(kept) |-> <<kept[i], ValueOf(params[kept[i]])>>]

\* JSON.stringify(params): the text is the sequence of the "key":value pairs;
\* a field holding undefined is left out.
JSONstringify(params) ==
  LET kept == SelectSeq(ParamKeyOrder,
                        LAMBDA k : k \in DOMAIN params /\ params[k] # Undefined)
  IN  [i \in 1..Len(kept) |-> <<kept[i], ValueOf(params[kept[i]])>>]

\* JSON.parse(text): the object owning the keys of the text.
JSONparse(text) ==
  [k \in {text[i][1] : i \in 1..Len(text)} |->
     Some(text[CHOOSE i \in 1..Len(text) : text[i][1] = k][2])]

\* AES.encrypt(text, key).toString(): a ciphertext only the key opens; and
\* AES.decrypt(encrypted, key).toString(enc.Utf8): the text, or undefined when
\* the key is another one.
AESencrypt(text, key, salt) == [salt |-> salt, key |-> key, text |-> text]
AESdecrypt(encrypted, key) ==
  IF encrypted.key = key THEN Some(encrypted.text) ELSE Undefined

encryptParams(params, salt) == AESencrypt(JSONstringify(params), ENCRYPTION_KEY, salt)

\* Returns [threw, value]: the parsed params, or the error of JSON.parse.
decryptDataSourceParams(encrypted) ==
  LET text == AESdecrypt(encrypted, ENCRYPTION_KEY)
  IN  IF text = Undefined
        THEN [threw |-> TRUE, value |-> Undefined]
        ELSE [threw |-> FALSE, value |-> Some(JSONparse(ValueOf(text)))]

\* The driver before the first call, and the record of "no call yet".
IdleDriver == [params |-> NoParams, sensitiveParamKeys |-> {}, merged |-> FALSE]
NoCall ==
  [fn |-> "none", before |-> NoParams, update |-> NoParams, returned |-> NoParams,
   encrypted |-> Undefined, decrypted |-> Undefined]

-----------------------------------------------------------------------------
(* testQuery and testDataSourceConnection: the state of one call *)

NoTestCalls == [getTestQuery |-> 0, runTestQuery |-> 0, testConnection |-> 0]

IdleTest ==
  [pc |-> "idle",
   operation |-> "none",              \* testQuery or testDataSourceConnection
   datasource |-> Undefined,          \* the record the call was given
   query |-> Undefined,               \* the caller's raw query
   integration |-> Undefined,         \* the driver built by the factory
   sql |-> Undefined,                 \* what getTestQuery returned
   passed |-> Undefined,              \* history: what was handed to runTestQuery
   result |-> Undefined,              \* the value the call resolved with
   raised |-> Undefined,              \* history: the call that raised, its message
   calls |-> NoTestCalls]             \* history: invocations issued by this call

-----------------------------------------------------------------------------
(* Synchronization runs *)

NoCalls ==
  [getInformationSchema |-> 0, formatInformationSchema |-> 0,
   createInformationSchemaColumns |-> 0, createInformationSchema |-> 0,
   updateDataSource |-> 0]

IdleRun ==
  [pc |-> "idle",
   datasource |-> Undefined,          \* the record the run was given
   organization |-> Undefined,        \* the organization the run was given
   integration |-> Undefined,         \* the driver built by the factory
   raw |-> Undefined,                 \* rawInformationSchema
   generated |-> Undefined,           \* the result of generateInformationSchema
   informationSchema |-> Undefined,   \* the tree, mutated in place
   table |-> 0,                       \* position of the loop in TablePaths
   informationSchemaId |-> Undefined,
   ids |-> 0,                         \* history: ids drawn by this run's store calls
   created |-> <<>>,                  \* history: ids of the columns documents it created
   raised |-> Undefined,              \* history: the call that raised, its message
   calls |-> NoCalls]                 \* history: invocations issued by this run

Init ==
  /\ dsStore \in { [id |-> DataSourceId, organization |-> Organization, type |-> t,
                    params |-> EncryptedParams,
                    settings |-> [queries |-> "queries v1"]]
                   : t \in SampleTypes }
  /\ colsCollection = {}
  /\ schemaCollection = {}
  /\ driverCaps \in SUBSET IntrospectionCapabilities
  /\ run = [r \in Runs |-> IdleRun]
  /\ lastBacklink = 0
  /\ test = IdleTest
  /\ driver = IdleDriver
  /\ lastCall = NoCall

Called(rec, op) == [rec EXCEPT !.calls[op] = @ + 1]

\* A variant of the capability check that skips only when both are missing.
LacksBothIntrospection(integration) ==
  /\ "getInformationSchema" \notin integration.capabilities
  /\ "formatInformationSchema" \notin integration.capabilities

\* Not all datasources support this yet.
LacksIntrospection(integration) ==
  \/ "getInformationSchema" \notin integration.capabilities
  \/ "formatInformationSchema" \notin integration.capabilities

\* A variant of the catch block that also hands back an empty schema.
OnDiscoveryErrorWithEmptySchema(message) ==
  [informationSchema |-> Some(<<>>), error |-> Some(message)]

\* catch (e) { return { error: e.message } }
OnDiscoveryError(message) == [informationSchema |-> Undefined, error |-> Some(message)]

\* generateInformationSchema up to its first await: the factory, then the
\* capability check, then the call of getInformationSchema.
\* The caller hands over the record as it is stored now.  Runs are numbered in
\* the order in which they begin.
BeginGenerate(r) ==
  /\ run[r].pc = "idle"
  /\ \A q \in Runs : q < r => run[q].pc # "idle"
  /\ LET built == getSourceIntegrationObject(dsStore)
         given == [run[r] EXCEPT !.datasource = Some(dsStore),
                                 !.organization = Some(dsStore.organization)]
     IN  run' = [run EXCEPT ![r] =
           IF built.threw
             THEN [given EXCEPT !.pc = "threw",
                     !.raised = Some([by |-> "getSourceIntegrationObject",
                                      message |-> built.message])]
             ELSE IF LacksIntrospection(ValueOf(built.obj))
               THEN [given EXCEPT !.pc = "generated", !.integration = built.obj,
                       !.generated = Some([informationSchema |-> Some(<<>>),
                                           error |-> Undefined])]
               ELSE Called([given EXCEPT !.pc = "getInformationSchema",
                                         !.integration = built.obj],
                           "getInformationSchema")]
  /\ UNCHANGED <<dsStore, colsCollection, schemaCollection, driverCaps, lastBacklink,
                 test, driver, lastCall>>

GetInformationSchemaReturns(r) ==
  /\ run[r].pc = "getInformationSchema"
  /\ \E raw \in RawSchemas :
       run' = [run EXCEPT ![r] =
         Called([@ EXCEPT !.pc = "formatInformationSchema", !.raw = Some(raw)],
                "formatInformationSchema")]
  /\ UNCHANGED <<dsStore, colsCollection, schemaCollection, driverCaps, lastBacklink,
                 test, driver, lastCall>>

GetInformationSchemaThrows(r) ==
  /\ run[r].pc = "getInformationSchema"
  /\ \E m \in FailureMessages :
       run' = [run EXCEPT ![r] =
         [@ EXCEPT !.pc = "generated",
                   !.raised = Some([by |-> "getInformationSchema", message |-> m]),
                   !.generated = Some(OnDiscoveryError(m))]]
  /\ UNCHANGED <<dsStore, colsCollection, schemaCollection, driverCaps, lastBacklink,
                 test, driver, lastCall>>

FormatInformationSchemaReturns(r) ==
  /\ run[r].pc = "formatInformationSchema"
  /\ LET informationSchema ==
           formatInformationSchema(ValueOf(run[r].raw), ValueOf(run[r].datasource).type)
     IN  run' = [run EXCEPT ![r] =
           [@ EXCEPT !.pc = "generated",
                     !.generated = Some([informationSchema |-> Some(informationSchema),
                                         error |-> Undefined])]]
  /\ UNCHANGED <<dsStore, colsCollection, schemaCollection, driverCaps, lastBacklink,
                 test, driver, lastCall>>

FormatInformationSchemaThrows(r) ==
  /\ run[r].pc = "formatInformationSchema"
  /\ \E m \in FailureMessages :
       run' = [run EXCEPT ![r] =
         [@ EXCEPT !.pc = "generated",
                   !.raised = Some([by |-> "formatInformationSchema", message |-> m]),
                   !.generated = Some(OnDiscoveryError(m))]]
  /\ UNCHANGED <<dsStore, colsCollection, schemaCollection, driverCaps, lastBacklink,
                 test, driver, lastCall>>

\* A variant of the loop that stops one table early.
AtTableButLast(rec, table) ==
  IF table < Len(TablePaths(ValueOf(rec.informationSchema)))
    THEN Called([rec EXCEPT !.pc = "createInformationSchemaColumns", !.table = table],
                "createInformationSchemaColumns")
    ELSE Called([rec EXCEPT !.pc = "createInformationSchema", !.table = table],
                "createInformationSchema")

\* The call the code issues once the loop stands at position `table` of a tree.
AtTable(rec, table) ==
  IF table <= Len(TablePaths(ValueOf(rec.informationSchema)))
    THEN Called([rec EXCEPT !.pc = "createInformationSchemaColumns", !.table = table],
                "createInformationSchemaColumns")
    ELSE Called([rec EXCEPT !.pc = "createInformationSchema", !.table = table],
                "createInformationSchema")

\* createInitialInformationSchema resumes with the result of
\* generateInformationSchema: const { informationSchema } = ...; if (informationSchema)
Resume(r) ==
  /\ run[r].pc = "generated"
  /\ LET informationSchema == ValueOf(run[r].generated).informationSchema
     IN  run' = [run EXCEPT ![r] =
           IF Truthy(informationSchema)
             THEN AtTable([@ EXCEPT !.informationSchema = informationSchema], 1)
             ELSE [@ EXCEPT !.pc = "returned"]]
  /\ UNCHANGED <<dsStore, colsCollection, schemaCollection, driverCaps, lastBacklink,
                 test, driver, lastCall>>

CreateInformationSchemaColumnsReturns(r) ==
  /\ run[r].pc = "createInformationSchemaColumns"
  /\ LET tree == ValueOf(run[r].informationSchema)
         path == TablePaths(tree)[run[r].table]
         call == createInformationSchemaColumns(
                   TableAt(tree, path).columns, ValueOf(run[r].organization),
                   <<r, run[r].ids + 1>>)
         column == call.returned
     IN  /\ colsCollection' = colsCollection \cup {call.document}
         /\ run' = [run EXCEPT ![r] =
              AtTable([@ EXCEPT !.informationSchema =
                                  Some(SetColumnsId(tree, path, column.id)),
                                !.ids = @ + 1,
                                !.created = Append(@, call.document.id)],
                      @.table + 1)]
  /\ UNCHANGED <<dsStore, schemaCollection, driverCaps, lastBacklink,
                 test, driver, lastCall>>

\* A variant that removes the run's earlier columns documents before raising.
CreateInformationSchemaColumnsThrowsAndRollsBack(r) ==
  /\ run[r].pc = "createInformationSchemaColumns"
  /\ \E m \in FailureMessages :
       run' = [run EXCEPT ![r] =
         [@ EXCEPT !.pc = "threw",
                   !.raised = Some([by |-> "createInformationSchemaColumns",
                                    message |-> m])]]
  /\ colsCollection' = {d \in colsCollection : d._id[2] # r}
  /\ UNCHANGED <<dsStore, schemaCollection, driverCaps, lastBacklink,
                 test, driver, lastCall>>

\* A variant that catches the failure of one table and goes on with the next.
CreateInformationSchemaColumnsThrowsAndContinues(r) ==
  /\ run[r].pc = "createInformationSchemaColumns"
  /\ \E m \in FailureMessages :
       run' = [run EXCEPT ![r] =
         AtTable([@ EXCEPT !.raised = Some([by |-> "createInformationSchemaColumns",
                                            message |-> m])],
                 @.table + 1)]
  /\ UNCHANGED <<dsStore, colsCollection, schemaCollection, driverCaps, lastBacklink,
                 test, driver, lastCall>>

CreateInformationSchemaColumnsThrows(r) ==
  /\ run[r].pc = "createInformationSchemaColumns"
  /\ \E m \in FailureMessages :
       run' = [run EXCEPT ![r] =
         [@ EXCEPT !.pc = "threw",
                   !.raised = Some([by |-> "createInformationSchemaColumns",
                                    message |-> m])]]
  /\ UNCHANGED <<dsStore, colsCollection, schemaCollection, driverCaps, lastBacklink,
                 test, driver, lastCall>>

CreateInformationSchemaReturns(r) ==
  /\ run[r].pc = "createInformationSchema"
  /\ LET call == createInformationSchema(
                   ValueOf(run[r].informationSchema), ValueOf(run[r].organization),
                   <<r, run[r].ids + 1>>)
         informationSchemaId == call.returned
     IN  /\ schemaCollection' = schemaCollection \cup {call.document}
         /\ run' = [run EXCEPT ![r] =
              IF Truthy(informationSchemaId)
                THEN Called([@ EXCEPT !.pc = "updateDataSource", !.ids = @ + 1,
                                      !.informationSchemaId = informationSchemaId],
                            "updateDataSource")
                ELSE [@ EXCEPT !.pc = "returned", !.ids = @ + 1,
                               !.informationSchemaId = informationSchemaId]]
  /\ UNCHANGED <<dsStore, colsCollection, driverCaps, lastBacklink,
                 test, driver, lastCall>>

CreateInformationSchemaThrows(r) ==
  /\ run[r].pc = "createInformationSchema"
  /\ \E m \in FailureMessages :
       run' = [run EXCEPT ![r] =
         [@ EXCEPT !.pc = "threw",
                   !.raised = Some([by |-> "createInformationSchema", message |-> m])]]
  /\ UNCHANGED <<dsStore, colsCollection, schemaCollection, driverCaps, lastBacklink,
                 test, driver, lastCall>>

\* A variant with the spread last: { informationSchemaId, ...datasource.settings }
BacklinkSettingsSpreadLast(settings, informationSchemaId) ==
  [k \in DOMAIN settings \cup {PointerKey} |->
     IF k \in DOMAIN settings THEN settings[k] ELSE informationSchemaId]

\* A variant without the spread: { informationSchemaId }
BacklinkSettingsPointerOnly(settings, informationSchemaId) ==
  [k \in {PointerKey} |-> informationSchemaId]

\* settings: { ...datasource.settings, informationSchemaId: informationSchemaId }
BacklinkSettings(settings, informationSchemaId) ==
  Spread(settings, PointerKey, informationSchemaId)

UpdateDataSourceReturns(r) ==
  /\ run[r].pc = "updateDataSource"
  /\ LET datasource == ValueOf(run[r].datasource)
         informationSchemaId == ValueOf(run[r].informationSchemaId)
     IN  dsStore' = updateDataSource(
                      dsStore, datasource.id, ValueOf(run[r].organization),
                      [settings |-> BacklinkSettings(datasource.settings,
                                                     informationSchemaId)])
  /\ lastBacklink' = r
  /\ run' = [run EXCEPT ![r].pc = "returned"]
  /\ UNCHANGED <<colsCollection, schemaCollection, driverCaps, test, driver, lastCall>>

UpdateDataSourceThrows(r) ==
  /\ run[r].pc = "updateDataSource"
  /\ \E m \in FailureMessages :
       run' = [run EXCEPT ![r] =
         [@ EXCEPT !.pc = "threw",
                   !.raised = Some([by |-> "updateDataSource", message |-> m])]]
  /\ UNCHANGED <<dsStore, colsCollection, schemaCollection, driverCaps, lastBacklink,
                 test, driver, lastCall>>

\* Another writer of the same record: a settings edit through updateDataSource.
EditSettings ==
  /\ \E queries \in QueriesSettings \ {dsStore.settings.queries} :
       dsStore' = updateDataSource(dsStore, dsStore.id, dsStore.organization,
                    [settings |-> Spread(dsStore.settings, "queries", queries)])
  /\ UNCHANGED <<colsCollection, schemaCollection, driverCaps, run, lastBacklink,
                 test, driver, lastCall>>

Next ==
  \/ \E r \in Runs :
       \/ BeginGenerate(r)
       \/ GetInformationSchemaReturns(r)
       \/ GetInformationSchemaThrows(r)
       \/ FormatInformationSchemaReturns(r)
       \/ FormatInformationSchemaThrows(r)
       \/ Resume(r)
       \/ CreateInformationSchemaColumnsReturns(r)
       \/ CreateInformationSchemaColumnsThrows(r)
       \/ CreateInformationSchemaReturns(r)
       \/ CreateInformationSchemaThrows(r)
       \/ UpdateDataSourceReturns(r)
       \/ UpdateDataSourceThrows(r)
  \/ EditSettings

Spec == Init /\ [][Next]_vars

-----------------------------------------------------------------------------
(* testQuery *)

CalledTest(rec, op) == [rec EXCEPT !.calls[op] = @ + 1]

\* A variant of the capability check that fails only when both are missing.
LacksBothTestQuery(integration) ==
  /\ "getTestQuery" \notin integration.capabilities
  /\ "runTestQuery" \notin integration.capabilities

\* if (!integration.getTestQuery || !integration.runTestQuery)
LacksTestQuery(integration) ==
  \/ "getTestQuery" \notin integration.capabilities
  \/ "runTestQuery" \notin integration.capabilities

\* The driver's getTestQuery: the caller's query wrapped and bounded by a row limit.
getTestQuery(query) == <<"SELECT * FROM (", query, ") LIMIT 5">>

\* A variant of the catch block that reports the error without the SQL.
OnTestQueryErrorWithoutSql(message, sql) ==
  [results |-> Undefined, duration |-> Undefined, sql |-> Undefined,
   error |-> Some(message)]

\* catch (e) { return { error: e.message, sql } }
OnTestQueryError(message, sql) ==
  [results |-> Undefined, duration |-> Undefined, sql |-> Some(sql),
   error |-> Some(message)]

\* testQuery up to its await: the factory, the capability check, getTestQuery,
\* then the call of runTestQuery.
BeginTestQuery ==
  /\ test.pc = "idle"
  /\ \E query \in Queries :
       LET built == getSourceIntegrationObject(dsStore)
           given == [test EXCEPT !.operation = "testQuery",
                                 !.datasource = Some(dsStore), !.query = Some(query)]
       IN  test' =
             IF built.threw
               THEN [given EXCEPT !.pc = "threw",
                       !.raised = Some([by |-> "getSourceIntegrationObject",
                                        message |-> built.message])]
               ELSE IF LacksTestQuery(ValueOf(built.obj))
                 THEN [given EXCEPT !.pc = "threw", !.integration = built.obj,
                         !.raised = Some([by |-> "testQuery",
                                          message |-> "Unable to test query."])]
                 ELSE LET sql == getTestQuery(query)
                      IN  CalledTest(
                            CalledTest([given EXCEPT !.pc = "runTestQuery",
                                                     !.integration = built.obj,
                                                     !.sql = Some(sql),
                                                     !.passed = Some(sql)],
                                       "getTestQuery"),
                            "runTestQuery")
  /\ UNCHANGED <<dsStore, colsCollection, schemaCollection, driverCaps, run,
                 lastBacklink, driver, lastCall>>

\* return { results, duration, sql }
RunTestQueryReturns ==
  /\ test.pc = "runTestQuery"
  /\ \E outcome \in TestQueryOutcomes :
       test' = [test EXCEPT !.pc = "returned",
                  !.result = Some([results |-> Some(outcome.results),
                                   duration |-> Some(outcome.duration),
                                   sql |-> test.sql, error |-> Undefined])]
  /\ UNCHANGED <<dsStore, colsCollection, schemaCollection, driverCaps, run,
                 lastBacklink, driver, lastCall>>

\* A variant that calls runTestQuery a second time after a failure.
RunTestQueryThrowsAndRetries ==
  /\ test.pc = "runTestQuery"
  /\ \E m \in ConnectionFailures :
       test' = IF test.calls.runTestQuery < 2
                 THEN CalledTest([test EXCEPT !.raised =
                                    Some([by |-> "runTestQuery", message |-> m])],
                                 "runTestQuery")
                 ELSE [test EXCEPT !.pc = "returned",
                         !.raised = Some([by |-> "runTestQuery", message |-> m]),
                         !.result = Some(OnTestQueryError(m, ValueOf(test.sql)))]
  /\ UNCHANGED <<dsStore, colsCollection, schemaCollection, driverCaps, run,
                 lastBacklink, driver, lastCall>>

RunTestQueryThrows ==
  /\ test.pc = "runTestQuery"
  /\ \E m \in ConnectionFailures :
       test' = [test EXCEPT !.pc = "returned",
                  !.raised = Some([by |-> "runTestQuery", message |-> m]),
                  !.result = Some(OnTestQueryError(m, ValueOf(test.sql)))]
  /\ UNCHANGED <<dsStore, colsCollection, schemaCollection, driverCaps, run,
                 lastBacklink, driver, lastCall>>

-----------------------------------------------------------------------------
(* testDataSourceConnection *)

\* The factory, then the call of testConnection.
BeginTestConnection ==
  /\ test.pc = "idle"
  /\ LET built == getSourceIntegrationObject(dsStore)
         given == [test EXCEPT !.operation = "testDataSourceConnection",
                               !.datasource = Some(dsStore)]
     IN  test' =
           IF built.threw
             THEN [given EXCEPT !.pc = "threw",
                     !.raised = Some([by |-> "getSourceIntegrationObject",
                                      message |-> built.message])]
             ELSE CalledTest([given EXCEPT !.pc = "testConnection",
                                           !.integration = built.obj],
                             "testConnection")
  /\ UNCHANGED <<dsStore, colsCollection, schemaCollection, driverCaps, run,
                 lastBacklink, driver, lastCall>>

\* The function ends after the await: it resolves with undefined.
TestConnectionReturns ==
  /\ test.pc = "testConnection"
  /\ test' = [test EXCEPT !.pc = "returned"]
  /\ UNCHANGED <<dsStore, colsCollection, schemaCollection, driverCaps, run,
                 lastBacklink, driver, lastCall>>

\* A variant that catches the failure and resolves with { error }.
TestConnectionThrowsReported ==
  /\ test.pc = "testConnection"
  /\ \E m \in ConnectionFailures :
       test' = [test EXCEPT !.pc = "returned",
                  !.raised = Some([by |-> "testConnection", message |-> m]),
                  !.result = Some([results |-> Undefined, duration |-> Undefined,
                                   sql |-> Undefined, error |-> Some(m)])]
  /\ UNCHANGED <<dsStore, colsCollection, schemaCollection, driverCaps, run,
                 lastBacklink, driver, lastCall>>

\* No try/catch: the rejection of testConnection is the rejection of the call.
TestConnectionThrows ==
  /\ test.pc = "testConnection"
  /\ \E m \in ConnectionFailures :
       test' = [test EXCEPT !.pc = "threw",
                  !.raised = Some([by |-> "testConnection", message |-> m])]
  /\ UNCHANGED <<dsStore, colsCollection, schemaCollection, driverCaps, run,
                 lastBacklink, driver, lastCall>>

\* One call of each operation on one data source: a synchronization run (the
\* first of Runs) beside a testQuery or a testDataSourceConnection.
FirstRuns == {r \in Runs : \A q \in Runs : r <= q}

InitOperations ==
  /\ dsStore \in { [id |-> DataSourceId, organization |-> Organization, type |-> t,
                    params |-> EncryptedParams,
                    settings |-> [queries |-> "queries v1"]]
                   : t \in SampleTypes }
  /\ colsCollection = {}
  /\ schemaCollection = {}
  /\ driverCaps \in SUBSET (IntrospectionCapabilities \cup TestQueryCapabilities)
  /\ run = [r \in Runs |-> IdleRun]
  /\ lastBacklink = 0
  /\ test = IdleTest
  /\ driver = IdleDriver
  /\ lastCall = NoCall

NextOperations ==
  \/ \E r \in FirstRuns :
       \/ BeginGenerate(r)
       \/ GetInformationSchemaReturns(r)
       \/ GetInformationSchemaThrows(r)
       \/ FormatInformationSchemaReturns(r)
       \/ FormatInformationSchemaThrows(r)
       \/ Resume(r)
       \/ CreateInformationSchemaColumnsReturns(r)
       \/ CreateInformationSchemaColumnsThrows(r)
       \/ CreateInformationSchemaReturns(r)
       \/ CreateInformationSchemaThrows(r)
       \/ UpdateDataSourceReturns(r)
       \/ UpdateDataSourceThrows(r)
  \/ BeginTestQuery
  \/ RunTestQueryReturns
  \/ RunTestQueryThrows
  \/ BeginTestConnection
  \/ TestConnectionReturns
  \/ TestConnectionThrows

SpecOperations == InitOperations /\ [][NextOperations]_vars

-----------------------------------------------------------------------------
(* The params of a live driver: mergeParams, getNonSensitiveParams and the  *)
(* credential codec, each applied to the driver as a whole call.            *)

MergeParams ==
  /\ \E newParams \in ParamStructures :
       /\ driver' = [driver EXCEPT
            !.params = mergeParams(driver.params, driver.sensitiveParamKeys, newParams),
            !.merged = TRUE]
       /\ lastCall' = [NoCall EXCEPT !.fn = "mergeParams",
                                     !.before = driver.params, !.update = newParams]
  /\ UNCHANGED <<dsStore, colsCollection, schemaCollection, driverCaps, run,
                 lastBacklink, test>>

GetNonSensitiveParams ==
  /\ lastCall' = [NoCall EXCEPT !.fn = "getNonSensitiveParams",
                    !.before = driver.params,
                    !.returned = getNonSensitiveParams(driver.params,
                                                       driver.sensitiveParamKeys)]
  /\ UNCHANGED <<dsStore, colsCollection, schemaCollection, driverCaps, run,
                 lastBacklink, test, driver>>

EncryptParams ==
  /\ \E salt \in Salts :
       lastCall' = [NoCall EXCEPT !.fn = "encryptParams",
                      !.before = driver.params,
                      !.encrypted = Some(encryptParams(driver.params, salt))]
  /\ UNCHANGED <<dsStore, colsCollection, schemaCollection, driverCaps, run,
                 lastBacklink, test, driver>>

\* Applied to the string encryptParams has just returned.
DecryptDataSourceParams ==
  /\ lastCall.fn = "encryptParams"
  /\ LET decrypted == decryptDataSourceParams(ValueOf(lastCall.encrypted))
     IN  lastCall' = [lastCall EXCEPT !.fn = "decryptDataSourceParams",
                                      !.decrypted = decrypted.value]
  /\ UNCHANGED <<dsStore, colsCollection, schemaCollection, driverCaps, run,
                 lastBacklink, test, driver>>

\* The driver is built from params that were parsed from JSON; its variant
\* names the sensitive keys.
InitParams ==
  /\ dsStore = [id |-> DataSourceId, organization |-> Organization,
                type |-> "postgres", params |-> EncryptedParams,
                settings |-> [queries |-> "queries v1"]]
  /\ colsCollection = {}
  /\ schemaCollection = {}
  /\ driverCaps = {}
  /\ run = [r \in Runs |-> IdleRun]
  /\ lastBacklink = 0
  /\ test = IdleTest
  /\ driver \in { [params |-> p, sensitiveParamKeys |-> keys, merged |-> FALSE]
                  : p \in JsonParamStructures, keys \in SUBSET ParamKeys }
  /\ lastCall = NoCall

NextParams ==
  \/ MergeParams
  \/ GetNonSensitiveParams
  \/ EncryptParams
  \/ DecryptDataSourceParams

SpecParams == InitParams /\ [][NextParams]_vars

-----------------------------------------------------------------------------
(* Vocabulary of the properties *)

Range(seq) == {seq[i] : i \in 1..Len(seq)}

Began(r) == run[r].pc # "idle"

\* The call `op` of run r raised.
RaisedBy(r, op) == run[r].raised # Undefined /\ ValueOf(run[r].raised).by = op

DiscoveryRaised(r) ==
  RaisedBy(r, "getInformationSchema") \/ RaisedBy(r, "formatInformationSchema")

\* The driver of this data source lacks one of the two capabilities.
DriverLacksIntrospection == driverCaps # IntrospectionCapabilities

\* The documents the store calls of run r inserted (the store's _id names the call).
ColumnsDocumentsOf(r) == {d \in colsCollection : d._id[2] = r}
SchemaDocumentsOf(r) == {d \in schemaCollection : d._id[2] = r}

StoredPointer ==
  IF PointerKey \in DOMAIN dsStore.settings
    THEN Some(dsStore.settings[PointerKey]) ELSE Undefined

\* Run r issued no call to the document store and wrote nothing to it.
NoStoreCall(r) ==
  /\ run[r].calls.createInformationSchemaColumns = 0
  /\ run[r].calls.createInformationSchema = 0
  /\ run[r].calls.updateDataSource = 0
  /\ ColumnsDocumentsOf(r) = {}
  /\ SchemaDocumentsOf(r) = {}
  /\ run[r].informationSchemaId = Undefined
  /\ lastBacklink # r

\* Every table of the tree carries the id of a columns document of the store.
ValidTree(tree) ==
  \A i \in 1..Len(TablePaths(tree)) :
    LET columns_id == TableAt(tree, TablePaths(tree)[i]).columns_id
    IN  /\ columns_id # Undefined
        /\ \E d \in colsCollection : d.id = ValueOf(columns_id)

\* Run r went through all four steps.
Completed(r) == run[r].pc = "returned" /\ run[r].calls.updateDataSource = 1

-----------------------------------------------------------------------------
(* C1 *)

\* C1: a run on a driver lacking getInformationSchema or formatInformationSchema
\* runs no later step: it issues no store call, creates no columns document and
\* no InformationSchema document, and does not write the pointer.
C1_SkippedRunPersistsNothing ==
  \A r \in Runs :
    (Began(r) /\ run[r].integration # Undefined /\ DriverLacksIntrospection)
      => NoStoreCall(r)

-----------------------------------------------------------------------------
(* C2 *)

\* C2: when getInformationSchema or formatInformationSchema raises,
\* generateInformationSchema returns {error: message} without a schema, the run
\* returns instead of raising, and it makes no call to the document store.
C2_DiscoveryFailureWritesNothing ==
  \A r \in Runs :
    DiscoveryRaised(r) =>
      /\ run[r].generated =
            Some([informationSchema |-> Undefined,
                  error |-> Some(ValueOf(run[r].raised).message)])
      /\ run[r].pc \in {"generated", "returned"}
      /\ NoStoreCall(r)

\* A run whose formatInformationSchema raised has returned.
C2_Witness ==
  \E r \in Runs : RaisedBy(r, "formatInformationSchema") /\ run[r].pc = "returned"

-----------------------------------------------------------------------------
(* C3 *)

\* C3 as stated: after createInformationSchemaColumns raised on table N, none of
\* the columns documents the run created for tables 1..N-1 is left in the store.
C3_NoColumnsLeftAfterFailure ==
  \A r \in Runs :
    RaisedBy(r, "createInformationSchemaColumns") => ColumnsDocumentsOf(r) = {}

\* C3 amended: after createInformationSchemaColumns raised on table N, the N-1
\* columns documents created for tables 1..N-1 are all still in the store, each
\* with its table's columns, and no InformationSchema document refers to them.
C3_ColumnsBeforeFailureRemain ==
  \A r \in Runs :
    RaisedBy(r, "createInformationSchemaColumns") =>
      LET tree == ValueOf(run[r].informationSchema)
          paths == TablePaths(tree)
          N == run[r].table
      IN  /\ run[r].pc = "threw"
          /\ Len(run[r].created) = N - 1
          /\ Cardinality(ColumnsDocumentsOf(r)) = N - 1
          /\ \A i \in 1..(N - 1) :
                /\ \E d \in ColumnsDocumentsOf(r) :
                      /\ d.id = run[r].created[i]
                      /\ d.columns = TableAt(tree, paths[i]).columns
                      /\ d.organization = ValueOf(run[r].organization)
                /\ \A s \in schemaCollection :
                      \A j \in 1..Len(TablePaths(s.databases)) :
                        TableAt(s.databases, TablePaths(s.databases)[j]).columns_id
                          # Some(run[r].created[i])

\* The call for the second table of a run raised, after the first was stored.
C3_Witness ==
  \E r \in Runs :
    /\ RaisedBy(r, "createInformationSchemaColumns")
    /\ run[r].table = 2
    /\ ColumnsDocumentsOf(r) # {}

-----------------------------------------------------------------------------
(* C4 *)

\* C4: when createInformationSchemaColumns raises on a table, the run raises:
\* it never calls createInformationSchema or updateDataSource, no
\* InformationSchema document of the run exists, and the pointer is not its.
C4_ColumnsFailureFailsRun ==
  \A r \in Runs :
    RaisedBy(r, "createInformationSchemaColumns") =>
      /\ run[r].pc = "threw"
      /\ run[r].calls.createInformationSchema = 0
      /\ run[r].calls.updateDataSource = 0
      /\ SchemaDocumentsOf(r) = {}
      /\ run[r].informationSchemaId = Undefined
      /\ lastBacklink # r
      /\ \/ StoredPointer = Undefined
         \/ \E q \in Runs \ {r} : StoredPointer = run[q].informationSchemaId

\* A run failed on its first table while the pointer was already set.
C4_Witness ==
  \E r \in Runs :
    /\ RaisedBy(r, "createInformationSchemaColumns")
    /\ run[r].table = 1
    /\ StoredPointer # Undefined

-----------------------------------------------------------------------------
(* C5 *)

\* C5: a completed run over a tree with T tables (T = 0 for the empty schema of a
\* driver without introspection) has created exactly T columns documents, the
\* i-th holding the columns of the i-th table and the run's organization, and
\* exactly one InformationSchema document, in which the i-th table's columns_id
\* is the id of the i-th columns document.
C5_OneColumnsDocumentPerTable ==
  \A r \in Runs :
    Completed(r) =>
      LET discovered == ValueOf(ValueOf(run[r].generated).informationSchema)
          paths == TablePaths(discovered)
          T == Len(paths)
      IN  /\ Cardinality(ColumnsDocumentsOf(r)) = T
          /\ Len(run[r].created) = T
          /\ \A i \in 1..T :
                \E d \in ColumnsDocumentsOf(r) :
                  /\ d.id = run[r].created[i]
                  /\ d.columns = TableAt(discovered, paths[i]).columns
                  /\ d.organization = ValueOf(run[r].organization)
          /\ Cardinality(SchemaDocumentsOf(r)) = 1
          /\ \A s \in SchemaDocumentsOf(r) :
                /\ Some(s.id) = run[r].informationSchemaId
                /\ s.organization = ValueOf(run[r].organization)
                /\ TablePaths(s.databases) = paths
                /\ \A i \in 1..T :
                      /\ TableAt(s.databases, paths[i]).columns_id
                           = Some(run[r].created[i])
                      /\ TableAt(s.databases, paths[i]).columns
                           = TableAt(discovered, paths[i]).columns

\* A run over a tree with two tables has completed.
C5_Witness ==
  \E r \in Runs :
    /\ Completed(r)
    /\ Len(TablePaths(ValueOf(run[r].informationSchema))) = 2

-----------------------------------------------------------------------------
(* C6 *)

\* C6: the step in which the updateDataSource of a run returns leaves the stored
\* settings with informationSchemaId equal to the id createInformationSchema
\* returned to that run, and with every other field equal to its value in the
\* record the run was given.
C6_BacklinkKeepsGivenSettings ==
  [][\A r \in Runs :
       (run[r].pc = "updateDataSource" /\ run'[r].pc = "returned") =>
         LET given == ValueOf(run[r].datasource).settings
         IN  /\ DOMAIN dsStore'.settings = DOMAIN given \cup {PointerKey}
             /\ dsStore'.settings[PointerKey] = ValueOf(run[r].informationSchemaId)
             /\ \A k \in DOMAIN given \ {PointerKey} :
                   dsStore'.settings[k] = given[k]]_vars

\* A resynchronization, given a record that already had a pointer, has completed
\* and the stored pointer is its new id.
C6_Witness ==
  \E r \in Runs :
    /\ Completed(r)
    /\ lastBacklink = r
    /\ PointerKey \in DOMAIN ValueOf(run[r].datasource).settings
    /\ StoredPointer = run[r].informationSchemaId
    /\ StoredPointer # Some(ValueOf(run[r].datasource).settings[PointerKey])

-----------------------------------------------------------------------------
(* C7 *)

\* C7: when updateDataSource raises, the InformationSchema document the run
\* created is in the store, every table of it carries the id of a columns
\* document of the store, and the run has not written the pointer.
C7_BacklinkFailureLeavesValidOrphan ==
  \A r \in Runs :
    RaisedBy(r, "updateDataSource") =>
      /\ run[r].pc = "threw"
      /\ Cardinality(SchemaDocumentsOf(r)) = 1
      /\ \A s \in SchemaDocumentsOf(r) :
            /\ Some(s.id) = run[r].informationSchemaId
            /\ ValidTree(s.databases)
            /\ TablePaths(s.databases)
                 = TablePaths(ValueOf(ValueOf(run[r].generated).informationSchema))
      /\ lastBacklink # r
      /\ StoredPointer # run[r].informationSchemaId

\* The backlink of a run over a tree with two tables raised.
C7_Witness ==
  \E r \in Runs :
    /\ RaisedBy(r, "updateDataSource")
    /\ Len(TablePaths(ValueOf(run[r].informationSchema))) = 2

-----------------------------------------------------------------------------
(* C8 *)

\* C8: two completed runs have created two InformationSchema documents with
\* distinct ids, and the stored pointer is the id of the run whose
\* updateDataSource returned last.
C8_LastBacklinkWins ==
  \A r1, r2 \in Runs :
    (r1 # r2 /\ Completed(r1) /\ Completed(r2)) =>
      /\ run[r1].informationSchemaId # run[r2].informationSchemaId
      /\ \E d1, d2 \in schemaCollection :
            /\ d1 # d2
            /\ Some(d1.id) = run[r1].informationSchemaId
            /\ Some(d2.id) = run[r2].informationSchemaId
      /\ lastBacklink \in Runs
      /\ StoredPointer = run[lastBacklink].informationSchemaId
      /\ \E d \in schemaCollection : Some(d.id) = StoredPointer

\* Two runs overlapped and the one that began first wrote the pointer last.
C8_Witness ==
  /\ Completed(1)
  /\ Completed(2)
  /\ lastBacklink = 1
  /\ PointerKey \notin DOMAIN ValueOf(run[2].datasource).settings
  /\ StoredPointer = run[1].informationSchemaId

-----------------------------------------------------------------------------
(* C9 *)

-----------------------------------------------------------------------------
(* C10 *)

\* C10: on a driver lacking getInformationSchema or formatInformationSchema,
\* generateInformationSchema invokes neither capability and returns
\* {informationSchema: []} without an error, and when it returns the run has
\* made no call to the document store.
C10_UnsupportedReturnsEmptySchema ==
  \A r \in Runs :
    (Began(r) /\ ~RaisedBy(r, "getSourceIntegrationObject") /\ DriverLacksIntrospection)
      => /\ run[r].calls.getInformationSchema = 0
         /\ run[r].calls.formatInformationSchema = 0
         /\ run[r].raw = Undefined
         /\ run[r].generated =
               Some([informationSchema |-> Some(<<>>), error |-> Undefined])
         /\ run[r].pc = "generated" => NoStoreCall(r)

\* generateInformationSchema has returned on a driver that has
\* getInformationSchema but no formatInformationSchema.
C10_Witness ==
  \E r \in Runs :
    /\ run[r].pc = "generated"
    /\ driverCaps = {"getInformationSchema"}
    /\ run[r].calls.getInformationSchema = 0

-----------------------------------------------------------------------------
(* Vocabulary of the properties on testQuery and testDataSourceConnection *)

TestBegan(operation) == test.pc # "idle" /\ test.operation = operation

TestRaisedBy(op) == test.raised # Undefined /\ ValueOf(test.raised).by = op

\* The driver of this data source lacks getTestQuery or runTestQuery.
DriverLacksTestQuery == ~(TestQueryCapabilities \subseteq driverCaps)

-----------------------------------------------------------------------------
(* C11 *)

\* C11: testQuery on a driver lacking getTestQuery or runTestQuery fails before
\* any execution: it raises "Unable to test query.", invokes neither
\* getTestQuery nor runTestQuery, and returns no result object.
C11_UnsupportedTestQueryFailsFast ==
  (TestBegan("testQuery") /\ test.integration # Undefined /\ DriverLacksTestQuery)
    => /\ test.pc = "threw"
       /\ TestRaisedBy("testQuery")
       /\ ValueOf(test.raised).message = "Unable to test query."
       /\ test.calls.getTestQuery = 0
       /\ test.calls.runTestQuery = 0
       /\ test.sql = Undefined
       /\ test.passed = Undefined
       /\ test.result = Undefined

\* A testQuery that raised on a driver with getTestQuery but without runTestQuery.
C11_Witness ==
  /\ TestBegan("testQuery")
  /\ test.integration # Undefined
  /\ "getTestQuery" \in driverCaps
  /\ "runTestQuery" \notin driverCaps
  /\ test.pc = "threw"

-----------------------------------------------------------------------------
(* C12 *)

\* C12: when runTestQuery raises, testQuery does not raise: it returns a result
\* holding the error message and the SQL that getTestQuery produced for the
\* caller's query, the string that was handed to runTestQuery; when runTestQuery
\* succeeds, the result holds results, duration and that same SQL, and no error.
C12_TestQueryReportsErrorWithSql ==
  /\ test.calls.runTestQuery > 0
       => test.passed = Some(getTestQuery(ValueOf(test.query)))
  /\ TestRaisedBy("runTestQuery")
       => /\ test.pc = "returned"
          /\ test.result # Undefined
          /\ ValueOf(test.result).error = Some(ValueOf(test.raised).message)
          /\ ValueOf(test.result).sql = test.passed
          /\ ValueOf(test.result).results = Undefined
          /\ ValueOf(test.result).duration = Undefined
  /\ (TestBegan("testQuery") /\ test.pc = "returned" /\ test.raised = Undefined)
       => /\ test.result # Undefined
          /\ ValueOf(test.result).results # Undefined
          /\ ValueOf(test.result).duration # Undefined
          /\ ValueOf(test.result).sql = test.passed
          /\ ValueOf(test.result).error = Undefined

\* A testQuery whose runTestQuery raised and that returned the bounded SQL.
C12_Witness ==
  /\ TestBegan("testQuery")
  /\ TestRaisedBy("runTestQuery")
  /\ test.pc = "returned"
  /\ ValueOf(test.result).error = Some("connection refused")
  /\ ValueOf(test.result).sql = Some(<<"SELECT * FROM (", "SELECT 1", ") LIMIT 5">>)

-----------------------------------------------------------------------------
(* Vocabulary of the properties on params *)

\* The field k as the object owns it: undefined when it does not own k.
Own(params, k) == IF k \in DOMAIN params THEN Some(params[k]) ELSE Undefined

\* An incoming or returned value that is empty or absent.
EmptyOrAbsent(v) == v = Undefined \/ v = Some("")

-----------------------------------------------------------------------------
(* C13 *)

\* C13: after mergeParams(driver, update), every key holds its previous value
\* if it is not in the update, or if it is sensitive and the incoming value is
\* empty or absent; otherwise it holds the incoming value.
C13_MergeKeepsBlankSecrets ==
  lastCall.fn = "mergeParams"
    => \A k \in ParamKeys :
         Own(driver.params, k) =
           IF \/ k \notin DOMAIN lastCall.update
              \/ k \in driver.sensitiveParamKeys /\ EmptyOrAbsent(lastCall.update[k])
             THEN Own(lastCall.before, k)
             ELSE Some(lastCall.update[k])

\* {user: "a", password: "secret"} merged with {password: ""}, password sensitive.
C13_Witness ==
  /\ lastCall.fn = "mergeParams"
  /\ driver.sensitiveParamKeys = {"password"}
  /\ lastCall.before = [user |-> Some("a"), password |-> Some("secret")]
  /\ lastCall.update = [password |-> Some("")]
  /\ driver.params = [user |-> Some("a"), password |-> Some("secret")]

-----------------------------------------------------------------------------
(* C14 *)

\* C14: in what getNonSensitiveParams returns, every sensitive key is empty and
\* every other key is as the driver's params hold it, whatever value is stored
\* under a sensitive key and after any sequence of mergeParams calls; the
\* driver's own params are not changed by the call.
C14_SensitiveKeysRedacted ==
  lastCall.fn = "getNonSensitiveParams"
    => /\ \A k \in driver.sensitiveParamKeys :
            EmptyOrAbsent(Get(lastCall.returned, k))
       /\ \A k \in ParamKeys \ driver.sensitiveParamKeys :
            Own(lastCall.returned, k) = Own(driver.params, k)
       /\ driver.params = lastCall.before

\* After a mergeParams, a stored secret comes back blank beside an unchanged user.
C14_Witness ==
  /\ lastCall.fn = "getNonSensitiveParams"
  /\ driver.merged
  /\ driver.sensitiveParamKeys = {"password"}
  /\ driver.params = [user |-> Some("a"), password |-> Some("secret")]
  /\ lastCall.returned = [user |-> Some("a"), password |-> Some("")]

-----------------------------------------------------------------------------
(* C15 *)

\* The driver is of the variant of the record's type and carries the record's
\* organization and id.
Stamped(integration, datasource) ==
  /\ integration # Undefined
  /\ ValueOf(integration).variant = ValueOf(datasource).type
  /\ ValueOf(integration).organization = Some(ValueOf(datasource).organization)
  /\ ValueOf(integration).datasource = Some(ValueOf(datasource).id)

\* The factory raised 'Unknown data source type' and handed back no driver.
FactoryFailed(integration, raised) ==
  /\ integration = Undefined
  /\ raised # Undefined
  /\ ValueOf(raised).by = "getSourceIntegrationObject"
  /\ ValueOf(raised).message[1] = "Unknown data source type: "

\* C15: getSourceIntegrationObject returns a driver of the variant of the
\* record's type stamped with the record's organization and id, or raises
\* 'Unknown data source type' when the type is not a supported one; so the driver
\* of generateInformationSchema, testQuery and testDataSourceConnection carries
\* that identity before its first capability call.
C15_DriverCarriesIdentity ==
  /\ \A r \in Runs :
       Began(r) =>
         /\ IF ValueOf(run[r].datasource).type \in SupportedTypes
              THEN Stamped(run[r].integration, run[r].datasource)
              ELSE /\ FactoryFailed(run[r].integration, run[r].raised)
                   /\ run[r].pc = "threw"
         /\ run[r].calls # NoCalls => Stamped(run[r].integration, run[r].datasource)
  /\ test.pc # "idle" =>
       /\ IF ValueOf(test.datasource).type \in SupportedTypes
            THEN Stamped(test.integration, test.datasource)
            ELSE /\ FactoryFailed(test.integration, test.raised)
                 /\ test.pc = "threw"
       /\ test.calls # NoTestCalls => Stamped(test.integration, test.datasource)

\* A stamped driver in use by a synchronization run and by a testQuery.
C15_Witness ==
  /\ \E r \in Runs : /\ run[r].calls.getInformationSchema = 1
                     /\ Stamped(run[r].integration, run[r].datasource)
  /\ TestBegan("testQuery")
  /\ test.calls.runTestQuery = 1
  /\ Stamped(test.integration, test.datasource)

-----------------------------------------------------------------------------
(* C16 *)

-----------------------------------------------------------------------------
(* C17 *)

\* C17: in every reachable state, whatever the interleaving of the runs and
\* whichever store call fails, a pointer stored in settings.informationSchemaId
\* refers to an InformationSchema document of the store in which every table has
\* a columns_id that refers to a columns document of the store.
C17_PointerRefersToCompleteTree ==
  StoredPointer # Undefined
    => \E d \in schemaCollection :
         /\ d.id = ValueOf(StoredPointer)
         /\ ValidTree(d.databases)

\* The pointer refers to a tree of two tables while another run has failed in
\* a store call.
C17_Witness ==
  /\ StoredPointer # Undefined
  /\ \E d \in schemaCollection :
       /\ d.id = ValueOf(StoredPointer)
       /\ Len(TablePaths(d.databases)) = 2
  /\ \E r \in Runs :
       /\ run[r].pc = "threw"
       /\ RaisedBy(r, "createInformationSchemaColumns")
       /\ ColumnsDocumentsOf(r) # {}

-----------------------------------------------------------------------------
(* C18 *)

\* C18: the backlink step merges only informationSchemaId into the stored
\* settings: every other settings field holds after the step what it held in
\* the store before it, also when another writer changed it after the run read
\* its record.
C18_BacklinkMergesOnlyPointer ==
  [][\A r \in Runs :
       (run[r].pc = "updateDataSource" /\ run'[r].pc = "returned")
         => \A k \in DOMAIN dsStore.settings \ {PointerKey} :
              /\ k \in DOMAIN dsStore'.settings
              /\ dsStore'.settings[k] = dsStore.settings[k]]_vars

-----------------------------------------------------------------------------
(* C19 *)

\* The number of tables of the tree run r persists, 0 before it has one.
TablesOf(r) ==
  IF run[r].informationSchema = Undefined
    THEN 0 ELSE Len(TablePaths(ValueOf(run[r].informationSchema)))

\* C19: nothing is retried.  One generateInformationSchema, testQuery or
\* testDataSourceConnection invokes each driver capability at most once, whether
\* the capability returns or raises; one synchronization run invokes
\* createInformationSchemaColumns once per table it reaches, and
\* createInformationSchema and updateDataSource at most once.
C19_NoRetry ==
  /\ \A r \in Runs :
       /\ run[r].calls.getInformationSchema <= 1
       /\ run[r].calls.formatInformationSchema <= 1
       /\ run[r].calls.createInformationSchema <= 1
       /\ run[r].calls.updateDataSource <= 1
       /\ run[r].calls.createInformationSchemaColumns <= TablesOf(r)
       /\ run[r].calls.createInformationSchemaColumns =
            Len(run[r].created)
            + (IF \/ run[r].pc = "createInformationSchemaColumns"
                  \/ RaisedBy(r, "createInformationSchemaColumns")
                 THEN 1 ELSE 0)
       /\ Cardinality(Range(run[r].created)) = Len(run[r].created)
  /\ test.calls.getTestQuery <= 1
  /\ test.calls.runTestQuery <= 1
  /\ test.calls.testConnection <= 1

\* A discovery that failed and a test query that failed, each after one call.
C19_Witness ==
  /\ \E r \in Runs : /\ RaisedBy(r, "getInformationSchema")
                     /\ run[r].pc = "returned"
                     /\ run[r].calls.getInformationSchema = 1
  /\ TestRaisedBy("runTestQuery")
  /\ test.pc = "returned"
  /\ test.calls.runTestQuery = 1
  /\ test.calls.getTestQuery = 1

-----------------------------------------------------------------------------
(* C20 *)

\* C20: a backend failure becomes an {error: message} result in
\* generateInformationSchema and in testQuery, but testDataSourceConnection
\* propagates: when testConnection raises, the call raises that failure and
\* resolves with nothing; when testConnection returns, the call completes
\* without a result payload.
C20_TestConnectionPropagates ==
  /\ \A r \in Runs :
       DiscoveryRaised(r)
         => /\ run[r].pc # "threw"
            /\ run[r].generated =
                 Some([informationSchema |-> Undefined,
                       error |-> Some(ValueOf(run[r].raised).message)])
  /\ TestRaisedBy("runTestQuery")
       => /\ test.pc = "returned"
          /\ test.result # Undefined
          /\ ValueOf(test.result).error = Some(ValueOf(test.raised).message)
  /\ TestBegan("testDataSourceConnection")
       => /\ TestRaisedBy("testConnection")
               => /\ test.pc = "threw"
                  /\ ValueOf(test.raised).message \in ConnectionFailures
          /\ test.pc = "returned"
               => test.raised = Undefined /\ test.calls.testConnection = 1
          /\ test.result = Undefined

\* A testDataSourceConnection that raised the failure of testConnection.
C20_Witness ==
  /\ TestBegan("testDataSourceConnection")
  /\ TestRaisedBy("testConnection")
  /\ ValueOf(test.raised).message = "authentication failed"
  /\ test.pc = "threw"
  /\ test.result = Undefined

====
